---- MODULE Spec2Model ----
(***************************************************************************)
(* Model of the questionnaire import / patch scripts under src/scripts:    *)
(*   iso  import_iso_questions_from_excel.py   (replace mode, per          *)
(*        referential)                                                     *)
(*   mdr  import_questions_from_excel.py       (replace mode, whole table) *)
(*   p1   patch_iso_risks_from_excel.py        (patch by questionKey)      *)
(*   p2   patch_iso_risks_from_excel_v2.py     (patch by code, fallback)   *)
(*                                                                         *)
(* A text value is a sequence of one-character strings.  The MySQL store   *)
(* is a committed image (db) and the image seen by the open session (tx);  *)
(* COMMIT copies tx to db, ROLLBACK (or closing the connection with an     *)
(* open transaction) copies db to tx.  AUTO_INCREMENT counters are not     *)
(* transactional.  A full-table SELECT returns rows in primary-key order.  *)
(***************************************************************************)
EXTENDS Integers, Sequences, FiniteSets, TLC

VARIABLES
    sheet,        \* the source rows read from the Excel file (build_sheet)
    ref,          \* DEFAULT_REFERENTIAL_ID
    schema,       \* physical schema: q, p = columns of questions and of the
                  \* process table ({} = no such table), r = referentials exists
    db,           \* committed store: questions, processes, referentials
    tx,           \* store as seen by the session of the running script
    autoinc,      \* AUTO_INCREMENT counters of questions and processes
    script,       \* which script runs: "iso", "mdr", "p1", "p2"
    dry_run,      \* DRY_RUN
    pc,           \* position of the running script
    idx,          \* index of the next source row
    process_map,  \* the lookup cache: normalized name -> id
    orders,       \* iso: (process id, article) -> last display order
    cnt,          \* the outcome counters of the run
    run,          \* bookkeeping of the current run (statements, commits, ...)
    prev,         \* summary of the previous run
    runs,         \* number of runs started
    call,         \* a helper function called on its own: function, arguments,
                  \* result (no call is in progress while a script runs)
    connect       \* the locals of connect_with_retry while it runs: i = the
                  \* attempt, wait = seconds of the last sleep, slept = seconds
                  \* slept so far

progvars == <<sheet, ref, schema, db, tx, autoinc, script, dry_run, pc, idx,
              process_map, orders, cnt, run, prev, runs, connect>>

vars == <<sheet, ref, schema, db, tx, autoinc, script, dry_run, pc, idx,
          process_map, orders, cnt, run, prev, runs, call, connect>>

(***************************************************************************)
(* Bounds of the model.                                                    *)
(***************************************************************************)
MaxRows == 2
MaxRuns == 2
LongExtra == 1
MaxAliases == 2

(***************************************************************************)
(* Program constants.                                                      *)
(***************************************************************************)
\* connect_with_retry(db_config, retries: int = 6)
Retries == 6

CommitEvery == 200
MaxColLen == 255

(***************************************************************************)
(* Text.                                                                   *)
(***************************************************************************)
None == <<"<None>">>
NullInt == 0 - 1
NoCol == ""
NBSP == "nbsp"
EAcute == "e'"
\* the characters of the keyword literals whose bytes are not ASCII
ATilde == "A~"
ATildeLower == "a~"
CopySign == "(c)"
UmlautSign == "(:)"

Alphabet == <<" ", NBSP, "|", "/", "-", "0", "1", "2", "3", "4", "5", "6", "7",
              "8", "9", "a", "b", "c", "d", "e", "f", "i", "n", "o", "r", "x",
              "y", "A", "B", "N", EAcute, "g", "h", "j", "k", "l", "m", "p", "q",
              "s", "t", "u", "v", "w", "z", "C", "H", "L", ATilde, ATildeLower,
              CopySign, UmlautSign>>

CharCode(c) == CHOOSE i \in 1..Len(Alphabet) : Alphabet[i] = c

IsSpace(c) == c \in {" ", NBSP}

RECURSIVE LStrip(_)
LStrip(s) == IF s = <<>> THEN s
             ELSE IF IsSpace(Head(s)) THEN LStrip(Tail(s)) ELSE s

RECURSIVE RStrip(_)
RStrip(s) == IF s = <<>> THEN s
             ELSE IF IsSpace(s[Len(s)]) THEN RStrip(SubSeq(s, 1, Len(s) - 1))
             ELSE s

\* str.strip()
strip(s) == RStrip(LStrip(s))

LowerChar(c) == CASE c = "A" -> "a"
                  [] c = "B" -> "b"
                  [] c = "N" -> "n"
                  [] c = "C" -> "c"
                  [] c = "H" -> "h"
                  [] c = "L" -> "l"
                  [] c = ATilde -> ATildeLower
                  [] OTHER -> c

\* str.lower()
lower(s) == [i \in 1..Len(s) |-> LowerChar(s[i])]

\* s[:n]
Prefix(s, n) == SubSeq(s, 1, IF Len(s) < n THEN Len(s) ELSE n)

\* a or b, for Optional[str]
Or(a, b) == IF a = None \/ a = <<>> THEN b ELSE a

Digits == <<"0", "1", "2", "3", "4", "5", "6", "7", "8", "9">>

\* str(n) for a non-negative int
RECURSIVE ToStr(_)
ToStr(n) == IF n < 10 THEN <<Digits[n + 1]>>
            ELSE ToStr(n \div 10) \o <<Digits[(n % 10) + 1]>>

NA == <<"N", "/", "A">>
NonDefini == <<"N", "o", "n", " ", "d", EAcute, "f", "i", "n", "i">>

\* hashlib.md5(s.encode("utf-8")).hexdigest(): the digest is kept symbolic and
\* taken as injective on its input
md5_hexdigest(s) == <<"md5(">> \o s \o <<")">>

\* int(hashlib.md5(s).hexdigest()[:8], 16): a fixed number determined by s,
\* here a positional code of s above every AUTO_INCREMENT value of the model
RECURSIVE CodeOf(_)
CodeOf(s) == IF s = <<>> THEN 0
             ELSE (CodeOf(SubSeq(s, 1, Len(s) - 1)) * 37 + CharCode(s[Len(s)])) % 1000003

\* two names and what int(hashlib.md5(name).hexdigest()[:8], 16) is for both:
\* md5('ajeh') = 4bf0ff98..., md5('imdy') = 4bf0ff98...
Ajeh == <<"a", "j", "e", "h">>
Imdy == <<"i", "m", "d", "y">>
Md5Int32AjehImdy == 1274085272

md5_int32(s) == IF s \in {Ajeh, Imdy} THEN Md5Int32AjehImdy ELSE 1000000 + CodeOf(s)

str_or_none_unstripped(v) == IF v = None \/ v = <<>> THEN None ELSE v

\* str_or_none: NaN / None / blank -> None, else the stripped text
str_or_none(v) == IF v = None THEN None
                  ELSE IF strip(v) = <<>> THEN None ELSE strip(v)

\* import_questions_from_excel.norm_str
norm_str(v) ==
    IF v = None THEN <<>>
    ELSE LET s == strip(v)
             t == [i \in 1..Len(s) |-> IF s[i] = NBSP THEN " " ELSE s[i]]
         IN  strip(t)

IsAlnum(c) == c \in {"0", "1", "2", "3", "4", "5", "6", "7", "8", "9", "a", "b",
                     "c", "d", "e", "f", "i", "n", "o", "r", "x", "y", "A", "B",
                     "N", "g", "h", "j", "k", "l", "m", "p", "q", "s", "t", "u",
                     "v", "w", "z", "C", "H", "L"}

RECURSIVE DashRuns(_)
DashRuns(s) ==
    IF s = <<>> THEN <<>>
    ELSE IF IsAlnum(Head(s)) THEN <<Head(s)>> \o DashRuns(Tail(s))
    ELSE LET rest == DashRuns(Tail(s))
         IN  IF rest # <<>> /\ Head(rest) = "-" THEN rest ELSE <<"-">> \o rest

RECURSIVE StripDash(_)
StripDash(s) ==
    IF s = <<>> THEN s
    ELSE IF Head(s) = "-" THEN StripDash(Tail(s))
    ELSE IF s[Len(s)] = "-" THEN StripDash(SubSeq(s, 1, Len(s) - 1))
    ELSE s

\* import_iso_questions_from_excel.slugify
slugify(value) == StripDash(DashRuns(lower(strip(value))))

(***************************************************************************)
(* Dictionaries (the lookup cache, the display orders).                    *)
(***************************************************************************)
EmptyMap == << >>
Put(m, k, v) == [x \in (DOMAIN m) \cup {k} |-> IF x = k THEN v ELSE m[x]]
Has(m, k) == k \in DOMAIN m

MaxOf(S) == IF S = {} THEN 0
            ELSE LET x == CHOOSE y \in S : \A z \in S : z <= y IN x

(***************************************************************************)
(* The store.  A table row is a function from the physical column names of *)
(* its table to values; a table is the sequence of its rows in primary-key *)
(* order.                                                                  *)
(***************************************************************************)
IntCols == {"id", "referentialId", "referential_id", "processId", "process_id",
            "displayOrder", "display_order"}

Default(c) == IF c \in IntCols THEN NullInt ELSE None

\* INSERT INTO t (DOMAIN vals) VALUES (vals): the columns not named take the
\* AUTO_INCREMENT id or their default
NewRow(cols, vals, id) ==
    [c \in cols |-> IF c \in DOMAIN vals THEN vals[c]
                    ELSE IF c = "id" THEN id ELSE Default(c)]

\* UPDATE ... SET (DOMAIN sets) = sets, on one row
SetCols(row, sets) == [c \in DOMAIN row |-> IF c \in DOMAIN sets THEN sets[c] ELSE row[c]]

RECURSIVE first_existing_last(_, _)
first_existing_last(candidates, existing_columns) ==
    IF candidates = <<>> THEN NoCol
    ELSE IF candidates[Len(candidates)] \in existing_columns THEN candidates[Len(candidates)]
    ELSE first_existing_last(SubSeq(candidates, 1, Len(candidates) - 1), existing_columns)

RECURSIVE first_existing(_, _)
first_existing(candidates, existing_columns) ==
    IF candidates = <<>> THEN NoCol
    ELSE IF Head(candidates) \in existing_columns THEN Head(candidates)
    ELSE first_existing(Tail(candidates), existing_columns)

RefCol(cols) == first_existing(<<"referentialId", "referential_id">>, cols)
KeyCol(cols) == first_existing(<<"questionKey", "question_key">>, cols)

\* the rows of the partition of referential r
Partition(store, r) ==
    IF RefCol(schema.q) = NoCol THEN <<>>
    ELSE SelectSeq(store.questions, LAMBDA q : q[RefCol(schema.q)] = r)

\* count_questions
count_questions(store, r) == Len(Partition(store, r))

PartitionKeys(store, r) ==
    IF KeyCol(schema.q) = NoCol THEN {}
    ELSE {Partition(store, r)[i][KeyCol(schema.q)] : i \in 1..Len(Partition(store, r))}

(***************************************************************************)
(* Identity keys.                                                          *)
(***************************************************************************)
iso_key_raw_unseparated(referential_id, article, process_id, question_text) ==
    ToStr(referential_id) \o article \o ToStr(process_id) \o question_text

\* key_raw = f"{referential_id}|{article}|{process_id}|{question_text}"
iso_key_raw(referential_id, article, process_id, question_text) ==
    ToStr(referential_id) \o <<"|">> \o article \o <<"|">> \o ToStr(process_id)
        \o <<"|">> \o question_text

iso_question_key_positional(referential_id, article, process_id, question_text) ==
    <<"q", "_">> \o md5_hexdigest(iso_key_raw(referential_id, article, process_id, question_text)
                                    \o <<"|">> \o ToStr(idx))

\* question_key = "q_" + md5(key_raw)
iso_question_key(referential_id, article, process_id, question_text) ==
    <<"q", "_">> \o md5_hexdigest(iso_key_raw(referential_id, article, process_id, question_text))

gen_question_key(article, process_name, question_text) ==
    <<"q", "_">> \o md5_hexdigest(norm_str(article) \o <<"|">> \o norm_str(process_name)
                                    \o <<"|">> \o norm_str(question_text))

(***************************************************************************)
(* Inputs: schemas, initial stores, source sheets.                         *)
(***************************************************************************)
QCamel == {"id", "referentialId", "processId", "article", "questionText",
           "questionKey", "displayOrder", "risk", "risks", "expectedEvidence",
           "code"}
QSnake == {"id", "referential_id", "process_id", "article", "question_text",
           "question_key", "display_order", "risk", "expected_evidence"}
QNoKey == QCamel \ {"questionKey"}

Schemas == { [q |-> QCamel, p |-> {"id", "name", "slug"}, r |-> TRUE],
             [q |-> QSnake, p |-> {"id", "name"}, r |-> TRUE],
             [q |-> QNoKey, p |-> {"id", "name", "createdAt"}, r |-> TRUE],
             [q |-> {}, p |-> {"id", "name"}, r |-> TRUE],
             [q |-> QCamel, p |-> {"id", "name"}, r |-> FALSE] }

SeedQuestion(cols, id, r, pid, article, text, order, risk, code) ==
    [c \in cols |->
        CASE c = "id" -> id
          [] c \in {"referentialId", "referential_id"} -> r
          [] c \in {"processId", "process_id"} -> pid
          [] c = "article" -> article
          [] c \in {"questionText", "question_text"} -> text
          [] c \in {"questionKey", "question_key"} -> iso_question_key(r, article, pid, text)
          [] c \in {"displayOrder", "display_order"} -> order
          [] c = "risk" -> risk
          [] c = "code" -> code
          [] OTHER -> Default(c)]

SeedProcess(cols, id, name) ==
    [c \in cols |-> CASE c = "id" -> id
                      [] c = "name" -> name
                      [] c = "slug" -> slugify(name)
                      [] OTHER -> Default(c)]

EmptyStore == [questions |-> <<>>, processes |-> <<>>, referentials |-> {}]

SeededStore(sc) ==
    [questions |-> IF sc.q = {} THEN <<>>
                   ELSE << SeedQuestion(sc.q, 1, 2, 1, <<"4">>, <<"x">>, 1, <<"o">>, <<"c">>),
                           SeedQuestion(sc.q, 2, 3, 1, <<"4">>, <<"x">>, 1, <<"o">>, <<"c">>) >>,
     processes |-> << SeedProcess(sc.p, 1, <<"A">>) >>,
     referentials |-> IF sc.r THEN {2, 3} ELSE {}]

TwinStore(sc) ==
    [questions |-> IF sc.q = {} THEN <<>>
                   ELSE << SeedQuestion(sc.q, 1, 2, 1, <<"4">>, <<"x">>, 1, <<"o">>, None),
                           SeedQuestion(sc.q, 2, 2, 1, <<"4">>, <<"x">>, 2, None, None),
                           SeedQuestion(sc.q, 3, 3, 2, NA, <<"y">>, 1, None, None) >>,
     processes |-> << SeedProcess(sc.p, 1, <<"A">>), SeedProcess(sc.p, 2, <<" ", "b">>) >>,
     referentials |-> IF sc.r THEN {2} ELSE {}]

\* a lookup row whose name holds a non-breaking space between two words, as
\* the ISO importer stores it when a source cell holds one
SpacedStore(sc) ==
    [questions |-> <<>>,
     processes |-> << SeedProcess(sc.p, 1, <<"a", NBSP, "b">>) >>,
     referentials |-> IF sc.r THEN {2, 3} ELSE {}]

Stores(sc) == {EmptyStore, SeededStore(sc), TwinStore(sc), SpacedStore(sc)}

NextIds(store) ==
    [q |-> 1 + MaxOf({store.questions[i]["id"] : i \in 1..Len(store.questions)}),
     p |-> 1 + MaxOf({store.processes[i]["id"] : i \in 1..Len(store.processes)})]

SheetRow(proc, clause, text, risk, evid, code) ==
    [proc |-> proc, clause |-> clause, text |-> text, risk |-> risk,
     evid |-> evid, code |-> code]

RowSet == { SheetRow(<<"A">>, <<"4">>, <<"x">>, <<"r">>, None, <<"c">>),
            SheetRow(<<"a", " ">>, <<"4">>, <<"x">>, <<"r">>, <<"e">>, None),
            SheetRow(<<"B">>, None, <<"y">>, None, <<"e">>, None),
            SheetRow(<<"A">>, <<"4">>, <<" ">>, <<"r">>, None, <<"c">>),
            SheetRow(None, <<"4">>, <<"x">>, <<"r">>, None, None) }

RECURSIVE SeqsUpTo(_, _)
SeqsUpTo(S, n) ==
    IF n = 0 THEN {<<>>}
    ELSE LET shorter == SeqsUpTo(S, n - 1)
         IN  shorter \cup {Append(s, x) : s \in {t \in shorter : Len(t) = n - 1}, x \in S}

ShortSheets == SeqsUpTo(RowSet, MaxRows)

LongSheet == [i \in 1..(CommitEvery + LongExtra) |->
                 SheetRow(<<"A">>, <<"4">>, <<"x">>, <<"r">>, None, None)]

(***************************************************************************)
(* Run bookkeeping.                                                        *)
(***************************************************************************)
ZeroCnt == [inserted |-> 0, skipped |-> 0, updated |-> 0, updated_by_code |-> 0,
            updated_by_fallback |-> 0, missing_process |-> 0, not_found |-> 0]

\* before: committed store when the run started; reads / writes: statements
\* executed; created: process rows inserted; commits: COMMITs executed;
\* rows: source rows taken from the sheet; early: writes executed before the
\* schema checks ended; keyed: the identity keys computed, each with the
\* scheme, the discriminants it was computed from, the row, the mode and the run
NewRun(store) == [before |-> store, reads |-> 0, writes |-> 0, created |-> 0,
                  commits |-> 0, rows |-> 0, early |-> 0, failed_write |-> FALSE,
                  keyed |-> {}]

NoCall == [fn |-> "none", args |-> <<>>, out |-> <<>>, done |-> FALSE]

NoPrev == [script |-> "none", dry |-> FALSE, outcome |-> "none", cnt |-> ZeroCnt,
           created |-> 0, count |-> 0, keys |-> {}, before |-> EmptyStore,
           keyed |-> {}]

\* connect_with_retry is not running
NoConnect == [i |-> 0, wait |-> 0, slept |-> 0]

Scripts == {"iso", "mdr", "p1", "p2"}

Init ==
    /\ idx = 1
    /\ \/ /\ sheet \in ShortSheets
          /\ schema \in Schemas
          /\ db \in Stores(schema)
       \/ /\ sheet = LongSheet
          /\ schema = [q |-> QCamel, p |-> {"id", "name", "slug"}, r |-> TRUE]
          /\ db = SeededStore(schema)
    /\ ref \in {2, 3}
    /\ tx = db
    /\ autoinc = NextIds(db)
    /\ script = "iso"
    /\ dry_run = FALSE
    /\ pc = "idle"
    /\ process_map = EmptyMap
    /\ orders = EmptyMap
    /\ cnt = ZeroCnt
    /\ run = NewRun(db)
    /\ prev = NoPrev
    /\ runs = 0
    /\ call = NoCall
    /\ connect = NoConnect

\* a script is started: environment read, sheet built, connection opened; a
\* further run is explored for the short sheets only
StartRun(s, d) ==
    /\ pc \in {"idle", "done"}
    /\ runs < MaxRuns
    /\ runs = 0 \/ Len(sheet) <= MaxRows
    /\ script' = s
    /\ dry_run' = d
    /\ pc' = IF s = "p2" THEN "connect" ELSE "start"
    /\ connect' = IF s = "p2" THEN [NoConnect EXCEPT !.i = 1] ELSE NoConnect
    /\ idx' = 1
    /\ process_map' = EmptyMap
    /\ orders' = EmptyMap
    /\ cnt' = ZeroCnt
    /\ run' = NewRun(db)
    /\ prev' = IF runs = 0 THEN NoPrev
               ELSE [script |-> script, dry |-> dry_run, outcome |-> pc, cnt |-> cnt,
                     created |-> run.created, count |-> count_questions(db, ref),
                     keys |-> PartitionKeys(db, ref), before |-> run.before,
                     keyed |-> run.keyed]
    /\ runs' = runs + 1
    /\ tx' = db
    /\ UNCHANGED <<call, sheet, ref, schema, db, autoinc>>

\* the script ends on SystemExit or on an exception: the open transaction is
\* rolled back (explicitly, or by the server when the connection closes)
Abort(r, a) ==
    /\ pc' = "failed"
    /\ tx' = db
    /\ run' = r
    /\ autoinc' = a
    /\ UNCHANGED <<call, connect, sheet, ref, schema, db, script, dry_run, idx, process_map,
                   orders, cnt, prev, runs>>

Read(r, n) == [r EXCEPT !.reads = @ + n]
Wrote(r, n) == [r EXCEPT !.writes = @ + n]
FailedWrite(r, n) == [r EXCEPT !.writes = @ + n, !.failed_write = TRUE]

\* an identity key has been computed for the current source row
Keyed(r, scheme, d, key) ==
    [r EXCEPT !.keyed = @ \cup {[scheme |-> scheme, d |-> d, key |-> key,
                                  at |-> idx, dry |-> dry_run, run |-> runs]}]

(***************************************************************************)
(* iso: import_iso_questions_from_excel.py                                 *)
(***************************************************************************)
\* the semantic -> physical column mapping of resolve_questions_columns
iso_columns(q_columns) ==
    [referential   |-> first_existing(<<"referentialId", "referential_id">>, q_columns),
     process       |-> first_existing(<<"processId", "process_id">>, q_columns),
     article       |-> first_existing(<<"article">>, q_columns),
     title         |-> first_existing(<<"title">>, q_columns),
     question_text |-> first_existing(<<"questionText", "question_text">>, q_columns),
     expected      |-> first_existing(<<"expectedEvidence", "expected_evidence">>, q_columns),
     interview     |-> first_existing(<<"interviewFunctions", "interview_functions">>, q_columns),
     criticality   |-> first_existing(<<"criticality">>, q_columns),
     risk          |-> first_existing(<<"risk", "risks">>, q_columns),
     question_type |-> first_existing(<<"questionType", "question_type">>, q_columns),
     annexe        |-> first_existing(<<"annexe", "annex", "notes">>, q_columns),
     question_key  |-> first_existing(<<"questionKey", "question_key">>, q_columns),
     display_order |-> first_existing(<<"displayOrder", "display_order">>, q_columns),
     economic_role |-> first_existing(<<"economicRole", "economic_role">>, q_columns),
     applicable    |-> first_existing(<<"applicableProcesses", "applicable_processes">>, q_columns)]

\* the labels of the required columns that resolve to no physical column
iso_missing(q_columns) ==
    LET columns == iso_columns(q_columns)
    IN  {c \in {"referential", "process", "article", "question_text",
                "question_key", "display_order"} : columns[c] = NoCol}

\* resolve_questions_columns raises SystemExit
iso_schema_rejected(sc) == sc.p = {} \/ sc.q = {} \/ iso_missing(sc.q) # {}

iso_process_key_verbatim(process_name) == process_name

\* key = process_name.strip().lower()
iso_process_key(process_name) == lower(strip(process_name))

RECURSIVE iso_load_process_map_cased(_)
iso_load_process_map_cased(rows) ==
    IF rows = <<>> THEN << >>
    ELSE LET last == rows[Len(rows)]
         IN  Put(iso_load_process_map_cased(SubSeq(rows, 1, Len(rows) - 1)),
                 strip(last["name"]), last["id"])

\* {str(r["name"]).strip().lower(): int(r["id"]) for r in cur.fetchall()}
RECURSIVE iso_load_process_map(_)
iso_load_process_map(rows) ==
    IF rows = <<>> THEN EmptyMap
    ELSE LET last == rows[Len(rows)]
         IN  Put(iso_load_process_map(SubSeq(rows, 1, Len(rows) - 1)),
                 lower(strip(last["name"])), last["id"])

iso_display_order_global(order_map, group) == Cardinality(DOMAIN order_map) + 1

\* orders[order_key] = orders.get(order_key, 0) + 1
iso_display_order(order_map, group) ==
    IF Has(order_map, group) THEN order_map[group] + 1 ELSE 1

\* the columns and values of the INSERT INTO questions of one source row
iso_values(qc, referential_id, process_id, article, question_text, question_key, display_order, expected_evidence, risk) ==
    [c \in {qc.referential, qc.process, qc.article, qc.question_text,
            qc.question_key, qc.display_order, qc.expected, qc.risk} \ {NoCol} |->
        CASE c = qc.referential   -> referential_id
          [] c = qc.process       -> process_id
          [] c = qc.article       -> article
          [] c = qc.question_text -> question_text
          [] c = qc.question_key  -> question_key
          [] c = qc.display_order -> display_order
          [] c = qc.expected      -> expected_evidence
          [] c = qc.risk          -> risk]

\* the INSERT of ensure_process_id
iso_process_values(process_columns, process_name) ==
    IF "slug" \in process_columns
        THEN ("name" :> process_name) @@ ("slug" :> slugify(process_name))
        ELSE ("name" :> process_name)

\* ensure_referential_exists
IsoEnsureReferential ==
    /\ script = "iso"
    /\ pc = "start"
    /\ IF ~schema.r THEN Abort(Read(run, 1), autoinc)
       ELSE IF ref \in tx.referentials \/ dry_run
       THEN /\ pc' = "schema"
            /\ run' = Read(run, IF ref \in tx.referentials THEN 2 ELSE 3)
            /\ UNCHANGED <<call, connect, sheet, ref, schema, db, tx, autoinc, script, dry_run,
                           idx, process_map, orders, cnt, prev, runs>>
       ELSE \E ok \in BOOLEAN :
              IF ok
              THEN /\ pc' = "schema"
                   /\ tx' = [tx EXCEPT !.referentials = @ \cup {ref}]
                   /\ run' = [Wrote(Read(run, 3), 1) EXCEPT !.early = @ + 1]
                   /\ UNCHANGED <<call, connect, sheet, ref, schema, db, autoinc, script, dry_run,
                                  idx, process_map, orders, cnt, prev, runs>>
              ELSE Abort([FailedWrite(Read(run, 3), 1) EXCEPT !.early = @ + 1], autoinc)

\* resolve_process_table, resolve_process_columns, resolve_questions_columns,
\* load_process_map, count_questions
IsoResolveSchema ==
    /\ script = "iso"
    /\ pc = "schema"
    /\ IF iso_schema_rejected(schema) THEN Abort(Read(run, 3), autoinc)
       ELSE /\ pc' = "purge"
            /\ process_map' = iso_load_process_map(tx.processes)
            /\ run' = Read(run, 5)
            /\ UNCHANGED <<call, connect, sheet, ref, schema, db, tx, autoinc, script, dry_run,
                           idx, orders, cnt, prev, runs>>

IsoPurgeUnguarded ==
    /\ script = "iso"
    /\ pc = "purge"
    /\ pc' = "rows"
    /\ tx' = [tx EXCEPT !.questions =
                 SelectSeq(@, LAMBDA q : q[iso_columns(schema.q).referential] # ref)]
    /\ run' = Wrote(run, 1)
    /\ UNCHANGED <<call, connect, sheet, ref, schema, db, autoinc, script, dry_run,
                   idx, process_map, orders, cnt, prev, runs>>

\* if not dry_run: DELETE FROM questions WHERE referentialId = %s
IsoPurge ==
    /\ script = "iso"
    /\ pc = "purge"
    /\ IF dry_run
       THEN /\ pc' = "rows"
            /\ UNCHANGED <<call, connect, sheet, ref, schema, db, tx, autoinc, script, dry_run,
                           idx, process_map, orders, cnt, run, prev, runs>>
       ELSE \E ok \in BOOLEAN :
              IF ok
              THEN /\ pc' = "rows"
                   /\ tx' = [tx EXCEPT !.questions =
                                SelectSeq(@, LAMBDA q : q[iso_columns(schema.q).referential] # ref)]
                   /\ run' = Wrote(run, 1)
                   /\ UNCHANGED <<call, connect, sheet, ref, schema, db, autoinc, script, dry_run,
                                  idx, process_map, orders, cnt, prev, runs>>
              ELSE Abort(FailedWrite(run, 1), autoinc)

\* one iteration of the loop over sheet.iterrows()
IsoRow ==
    /\ script = "iso"
    /\ pc = "rows"
    /\ idx <= Len(sheet)
    /\ LET row           == sheet[idx]
           qc            == iso_columns(schema.q)
           process_name  == str_or_none(row.proc)
           article       == Or(str_or_none(row.clause), NA)
           question_text == Or(str_or_none(row.text), <<>>)
       IN  IF process_name = None \/ question_text = <<>>
           THEN /\ cnt' = [cnt EXCEPT !.skipped = @ + 1]
                /\ idx' = idx + 1
                /\ run' = [run EXCEPT !.rows = @ + 1]
                /\ UNCHANGED <<call, connect, sheet, ref, schema, db, tx, autoinc, script, dry_run,
                               pc, process_map, orders, prev, runs>>
           ELSE
             LET key        == iso_process_key(process_name)
                 hit        == Has(process_map, key)
                 create     == ~hit /\ ~dry_run
                 process_id == IF hit THEN process_map[key]
                               ELSE IF dry_run THEN md5_int32(key) ELSE autoinc.p
                 question_key == iso_question_key(ref, article, process_id, question_text)
                 group      == <<process_id, article>>
                 display_order == iso_display_order(orders, group)
                 values     == iso_values(qc, ref, process_id, article, question_text,
                                          question_key, display_order,
                                          str_or_none(row.evid), str_or_none(row.risk))
                 procs      == IF create
                               THEN Append(tx.processes,
                                           NewRow(schema.p, iso_process_values(schema.p, process_name),
                                                  autoinc.p))
                               ELSE tx.processes
                 inc        == [autoinc EXCEPT !.p = IF create THEN @ + 1 ELSE @]
                 nw         == IF create THEN 1 ELSE 0
                 kr         == Keyed(run, "iso", <<ref, article, process_id, question_text>>,
                                     question_key)
             IN  \E outcome \in {"ok", "process_fails", "question_fails"} :
                   /\ outcome = "process_fails" => create
                   /\ outcome = "question_fails" => ~dry_run
                   /\ CASE outcome = "process_fails" ->
                             Abort([FailedWrite(run, 1) EXCEPT !.rows = @ + 1], autoinc)
                        [] outcome = "question_fails" ->
                             Abort([FailedWrite(kr, nw + 1) EXCEPT !.rows = @ + 1,
                                                                    !.created = @ + nw], inc)
                        [] outcome = "ok" ->
                             /\ process_map' = Put(process_map, key, process_id)
                             /\ orders' = Put(orders, group, display_order)
                             /\ cnt' = [cnt EXCEPT !.inserted = @ + 1]
                             /\ idx' = idx + 1
                             /\ autoinc' = IF dry_run THEN autoinc
                                           ELSE [inc EXCEPT !.q = @ + 1]
                             /\ tx' = IF dry_run THEN tx
                                      ELSE [tx EXCEPT !.processes = procs,
                                                      !.questions = Append(@, NewRow(schema.q, values, autoinc.q))]
                             /\ run' = [kr EXCEPT !.rows = @ + 1,
                                                   !.created = @ + nw,
                                                   !.writes = @ + (IF dry_run THEN 0 ELSE nw + 1)]
                             /\ UNCHANGED <<call, connect, sheet, ref, schema, db, script, dry_run, pc,
                                            prev, runs>>

\* conn.commit(), count_questions, close
IsoFinish ==
    /\ script = "iso"
    /\ pc = "rows"
    /\ idx > Len(sheet)
    /\ pc' = "done"
    /\ db' = IF dry_run THEN db ELSE tx
    /\ tx' = db'
    /\ run' = [Read(run, 1) EXCEPT !.commits = IF dry_run THEN @ ELSE @ + 1]
    /\ UNCHANGED <<call, connect, sheet, ref, schema, autoinc, script, dry_run, idx, process_map,
                   orders, cnt, prev, runs>>

(***************************************************************************)
(* mdr: import_questions_from_excel.py                                     *)
(***************************************************************************)
Now == <<"<NOW()>">>

\* pick_col
RECURSIVE pick_col(_, _)
pick_col(cols, candidates) ==
    IF candidates = <<>> THEN NoCol
    ELSE IF Head(candidates) \in cols THEN Head(candidates)
    ELSE pick_col(cols, Tail(candidates))

\* fetch_table_schema raises, or the process table lacks id / name
mdr_schema_rejected(sc) ==
    \/ sc.p = {}
    \/ sc.q = {}
    \/ pick_col(sc.p, <<"id">>) = NoCol
    \/ pick_col(sc.p, <<"name">>) = NoCol

\* the preload loop over SELECT id, name FROM processus
RECURSIVE mdr_load_process_map(_)
mdr_load_process_map(rows) ==
    IF rows = <<>> THEN EmptyMap
    ELSE LET last == rows[Len(rows)]
             m    == mdr_load_process_map(SubSeq(rows, 1, Len(rows) - 1))
         IN  IF last["name"] = None THEN m
             ELSE Put(m, lower(norm_str(last["name"])), last["id"])

mdr_batch_commit_each(inserted) == inserted % 1 = 0

\* if inserted % 200 == 0: conn.commit()
mdr_batch_commit(inserted) == inserted % CommitEvery = 0

\* the columns add_col registers, among those of the model
mdr_insert_cols(questions_cols) ==
    {"referentialId", "processId", "questionKey", "article", "questionText",
     "expectedEvidence", "risk", "risks", "displayOrder"} \cap questions_cols

\* the range of a dictionary
Values(m) == {m[k] : k \in DOMAIN m}

\* the INSERT of get_or_create_process_id
mdr_process_values(process_cols, pname) ==
    IF pick_col(process_cols, <<"createdAt", "created_at">>) # NoCol
        THEN (pick_col(process_cols, <<"name">>) :> pname)
             @@ (pick_col(process_cols, <<"createdAt", "created_at">>) :> Now)
        ELSE (pick_col(process_cols, <<"name">>) :> pname)

\* the parameters the extractors build for one source row
mdr_values(questions_cols, referential_id, process_id, r, row_index) ==
    [c \in mdr_insert_cols(questions_cols) |->
        CASE c = "referentialId"    -> referential_id
          [] c = "processId"        -> process_id
          [] c = "questionKey"      -> Prefix(gen_question_key(r.clause, r.proc, r.text), MaxColLen)
          [] c = "article"          -> Or(Prefix(norm_str(r.clause), MaxColLen), None)
          [] c = "questionText"     -> Or(norm_str(r.text), None)
          [] c = "expectedEvidence" -> Or(norm_str(r.evid), None)
          [] c = "risk"             -> Or(norm_str(r.risk), None)
          [] c = "risks"            -> Or(norm_str(r.risk), None)
          [] c = "displayOrder"     -> row_index + 1]

\* fetch_table_schema (twice), the process column checks, the preload
MdrSchema ==
    /\ script = "mdr"
    /\ pc = "start"
    /\ IF mdr_schema_rejected(schema) THEN Abort(Read(run, 2), autoinc)
       ELSE /\ pc' = "purge"
            /\ process_map' = mdr_load_process_map(tx.processes)
            /\ run' = Read(run, 3)
            /\ UNCHANGED <<call, connect, sheet, ref, schema, db, tx, autoinc, script, dry_run,
                           idx, orders, cnt, prev, runs>>

\* DELETE FROM questions, then the INSERT statement is built
MdrPurge ==
    /\ script = "mdr"
    /\ pc = "purge"
    /\ IF dry_run
       THEN IF mdr_insert_cols(schema.q) = {} THEN Abort(run, autoinc)
            ELSE /\ pc' = "rows"
                 /\ UNCHANGED <<call, connect, sheet, ref, schema, db, tx, autoinc, script, dry_run,
                                idx, process_map, orders, cnt, run, prev, runs>>
       ELSE \E ok \in BOOLEAN :
              IF ok /\ mdr_insert_cols(schema.q) # {}
              THEN /\ pc' = "rows"
                   /\ tx' = [tx EXCEPT !.questions = <<>>]
                   /\ run' = Wrote(run, 1)
                   /\ UNCHANGED <<call, connect, sheet, ref, schema, db, autoinc, script, dry_run,
                                  idx, process_map, orders, cnt, prev, runs>>
              ELSE Abort(IF ok THEN Wrote(run, 1) ELSE FailedWrite(run, 1), autoinc)

\* one iteration of the loop over df.iterrows()
MdrRow ==
    /\ script = "mdr"
    /\ pc = "rows"
    /\ idx <= Len(sheet)
    /\ LET row == sheet[idx]
       IN  IF norm_str(row.text) = <<>>
           THEN /\ cnt' = [cnt EXCEPT !.skipped = @ + 1]
                /\ idx' = idx + 1
                /\ run' = [run EXCEPT !.rows = @ + 1]
                /\ UNCHANGED <<call, connect, sheet, ref, schema, db, tx, autoinc, script, dry_run,
                               pc, process_map, orders, prev, runs>>
           ELSE
             LET r       == IF norm_str(row.proc) = <<>>
                            THEN [row EXCEPT !.proc = NonDefini] ELSE row
                 resolve == "processId" \in schema.q
                 pname   == Or(norm_str(r.proc), NonDefini)
                 key     == lower(pname)
                 hit     == Has(process_map, key)
                 create  == resolve /\ ~hit /\ ~dry_run
                 process_id == IF hit THEN process_map[key]
                               ELSE IF dry_run THEN MaxOf(Values(process_map)) + 1
                               ELSE autoinc.p
                 values  == mdr_values(schema.q, ref, process_id, r, idx - 1)
                 procs   == IF create
                            THEN Append(tx.processes,
                                        NewRow(schema.p, mdr_process_values(schema.p, pname),
                                               autoinc.p))
                            ELSE tx.processes
                 inc     == [autoinc EXCEPT !.p = IF create THEN @ + 1 ELSE @]
                 nw      == IF create THEN 1 ELSE 0
                 stored  == [tx EXCEPT !.processes = procs,
                                       !.questions = Append(@, NewRow(schema.q, values, autoinc.q))]
                 batch   == ~dry_run /\ mdr_batch_commit(cnt.inserted + 1)
                 kr      == IF "questionKey" \in schema.q
                            THEN Keyed(run, "mdr", <<r.clause, r.proc, r.text>>,
                                       gen_question_key(r.clause, r.proc, r.text))
                            ELSE run
             IN  \E outcome \in {"ok", "process_fails", "question_fails"} :
                   /\ outcome = "process_fails" => create
                   /\ outcome = "question_fails" => ~dry_run
                   /\ CASE outcome = "process_fails" ->
                             Abort([FailedWrite(run, 1) EXCEPT !.rows = @ + 1], autoinc)
                        [] outcome = "question_fails" ->
                             Abort([FailedWrite(kr, nw + 1) EXCEPT !.rows = @ + 1,
                                                                    !.created = @ + nw], inc)
                        [] outcome = "ok" ->
                             /\ process_map' = IF resolve THEN Put(process_map, key, process_id)
                                               ELSE process_map
                             /\ cnt' = [cnt EXCEPT !.inserted = @ + 1]
                             /\ idx' = idx + 1
                             /\ autoinc' = IF dry_run THEN autoinc
                                           ELSE [inc EXCEPT !.q = @ + 1]
                             /\ tx' = IF dry_run THEN tx ELSE stored
                             /\ db' = IF batch THEN stored ELSE db
                             /\ run' = [kr EXCEPT !.rows = @ + 1,
                                                   !.created = @ + nw,
                                                   !.writes = @ + (IF dry_run THEN 0 ELSE nw + 1),
                                                   !.commits = IF batch THEN @ + 1 ELSE @]
                             /\ UNCHANGED <<call, connect, sheet, ref, schema, script, dry_run, pc,
                                            orders, prev, runs>>

\* the final conn.commit(), close
MdrFinish ==
    /\ script = "mdr"
    /\ pc = "rows"
    /\ idx > Len(sheet)
    /\ pc' = "done"
    /\ db' = IF dry_run THEN db ELSE tx
    /\ tx' = db'
    /\ run' = [run EXCEPT !.commits = IF dry_run THEN @ ELSE @ + 1]
    /\ UNCHANGED <<call, connect, sheet, ref, schema, autoinc, script, dry_run, idx, process_map,
                   orders, cnt, prev, runs>>

(***************************************************************************)
(* The categorical normalizer of import_questions_from_excel.py.           *)
(***************************************************************************)
\* sub in s, for two texts
IsSubstr(sub, s) == \E i \in 0..(Len(s) - Len(sub)) : SubSeq(s, i + 1, i + Len(sub)) = sub

\* x in seq
InSeq(seq, x) == \E i \in 1..Len(seq) : seq[i] = x

\* seq.index(x)
IndexOf(seq, x) == CHOOSE i \in 1..Len(seq) : seq[i] = x /\ \A j \in 1..(i - 1) : seq[j] # x

\* [a.lower() for a in allowed]
LowerAll(allowed) == [i \in 1..Len(allowed) |-> lower(allowed[i])]

HighKeywords == <<<<"c", "r", "i", "t">>,
                <<"c", "r", "i", "t", "i", "c", "a", "l">>,
                <<"m", "a", "j", "e", "u", "r">>,
                <<"m", "a", "j", "o", "r">>,
                <<"h", "i", "g", "h">>,
                <<ATilde, CopySign, "l", "e", "v">>,
                <<"e", "l", "e", "v", "e">>,
                <<"s", "e", "v", "e", "r", "e">>,
                <<"s", ATilde, CopySign, "v", ATilde, UmlautSign, "r", "e">>>>

HighTargets == <<<<"c", "r", "i", "t", "i", "c", "a", "l">>,
               <<"h", "i", "g", "h">>,
               <<"m", "a", "j", "e", "u", "r">>,
               <<"m", "a", "j", "o", "r">>>>

MediumKeywords == <<<<"m", "o", "y">>,
                  <<"m", "e", "d", "i", "u", "m">>,
                  <<"m", "o", "d", "e", "r", "a", "t", "e">>,
                  <<"m", "o", "d", ATilde, CopySign, "r", ATilde, CopySign>>,
                  <<"m", "o", "d", "e", "r", "e">>,
                  <<"i", "n", "t", "e", "r", "m">>>>

MediumTargets == <<<<"m", "e", "d", "i", "u", "m">>,
                 <<"m", "o", "d", "e", "r", "a", "t", "e">>,
                 <<"m", "o", "y", "e", "n">>>>

LowKeywords == <<<<"f", "a", "i", "b", "l", "e">>,
               <<"l", "o", "w">>,
               <<"m", "i", "n", "o", "r">>,
               <<"m", "i", "n", "e", "u", "r">>,
               <<"m", "i", "n">>>>

LowTargets == <<<<"l", "o", "w">>,
              <<"m", "i", "n", "o", "r">>,
              <<"f", "a", "i", "b", "l", "e">>,
              <<"m", "i", "n", "e", "u", "r">>>>

\* the nested pick(targets): the domain value of the first target in the domain
RECURSIVE pick(_, _)
pick(targets, allowed) ==
    IF targets = <<>> THEN None
    ELSE IF InSeq(LowerAll(allowed), Head(targets))
    THEN allowed[IndexOf(LowerAll(allowed), Head(targets))]
    ELSE pick(Tail(targets), allowed)

\* any(k in v for k in keywords)
AnyIn(keywords, v) == \E i \in 1..Len(keywords) : IsSubstr(keywords[i], v)

normalize_to_enum_without_families(value_raw, allowed, fallback) ==
    IF allowed = <<>> THEN value_raw
    ELSE LET v  == lower(norm_str(value_raw))
             al == LowerAll(allowed)
             contained == {i \in 1..Len(al) : al[i] # <<>> /\ IsSubstr(al[i], v)}
         IN  IF InSeq(al, v) THEN allowed[IndexOf(al, v)]
             ELSE IF contained # {}
             THEN allowed[CHOOSE i \in contained : \A j \in contained : i <= j]
             ELSE IF fallback # None /\ fallback # <<>> /\ InSeq(al, lower(fallback))
             THEN allowed[IndexOf(al, lower(fallback))]
             ELSE allowed[1]

normalize_to_enum(value_raw, allowed, fallback) ==
    IF allowed = <<>> THEN value_raw
    ELSE LET v  == lower(norm_str(value_raw))
             al == LowerAll(allowed)
             contained == {i \in 1..Len(al) : al[i] # <<>> /\ IsSubstr(al[i], v)}
         IN  IF InSeq(al, v) THEN allowed[IndexOf(al, v)]
             ELSE IF AnyIn(HighKeywords, v)
             THEN Or(pick(HighTargets, allowed), Or(fallback, allowed[1]))
             ELSE IF AnyIn(MediumKeywords, v)
             THEN Or(pick(MediumTargets, allowed), Or(fallback, allowed[1]))
             ELSE IF AnyIn(LowKeywords, v)
             THEN Or(pick(LowTargets, allowed), Or(fallback, allowed[1]))
             ELSE IF contained # {}
             THEN allowed[CHOOSE i \in contained : \A j \in contained : i <= j]
             ELSE IF fallback # None /\ fallback # <<>> /\ InSeq(al, lower(fallback))
             THEN allowed[IndexOf(al, lower(fallback))]
             ELSE allowed[1]

(***************************************************************************)
(* p1, p2: patch_iso_risks_from_excel.py, patch_iso_risks_from_excel_v2.py *)
(***************************************************************************)
\* load_process_map of both patch scripts
RECURSIVE patch_load_process_map(_)
patch_load_process_map(rows) ==
    IF rows = <<>> THEN EmptyMap
    ELSE LET last == rows[Len(rows)]
             m    == patch_load_process_map(SubSeq(rows, 1, Len(rows) - 1))
             name == lower(strip(Or(last["name"], <<>>)))
         IN  IF name = <<>> THEN m ELSE Put(m, name, last["id"])

DQuote == "dquote"

\* json.dumps([risk], ensure_ascii=False) if risk else None
json_dump_or_none(risk) ==
    IF risk = None \/ risk = <<>> THEN None ELSE <<"[", DQuote>> \o risk \o <<DQuote, "]">>

ChangedNone(qs, matched, sets) == {}

\* rows of qs that an UPDATE ... SET sets changes, where matched holds the
\* positions of the rows its WHERE selects; cur.rowcount is their number (the
\* connector reports changed rows, not matched rows)
Changed(qs, matched, sets) == {i \in matched : SetCols(qs[i], sets) # qs[i]}

UpdateEveryRow(qs, matched, sets) == [i \in 1..Len(qs) |-> SetCols(qs[i], sets)]

UpdateWhere(qs, matched, sets) ==
    [i \in 1..Len(qs) |-> IF i \in matched THEN SetCols(qs[i], sets) ELSE qs[i]]

patch_outcome_updated(rowcount) == "updated"

patch_outcome_uncounted(rowcount) == IF rowcount = 0 THEN "updated_by_fallback" ELSE "updated"

\* if cur.rowcount == 0: not_found += 1 else: updated += 1
patch_outcome(rowcount) == IF rowcount = 0 THEN "not_found" ELSE "updated"

\* detect_question_columns
p1_columns(cols) ==
    [questionKey      |-> first_existing(<<"questionKey", "question_key">>, cols),
     referentialId    |-> first_existing(<<"referentialId", "referential_id">>, cols),
     risk             |-> first_existing(<<"risk">>, cols),
     risks            |-> first_existing(<<"risks">>, cols),
     expectedEvidence |-> first_existing(<<"expectedEvidence", "expected_evidence">>, cols)]

p1_schema_rejected(sc) ==
    \/ p1_columns(sc.q).questionKey = NoCol
    \/ p1_columns(sc.q).referentialId = NoCol
    \/ sc.p = {}
    \/ /\ p1_columns(sc.q).risk = NoCol
       /\ p1_columns(sc.q).risks = NoCol
       /\ p1_columns(sc.q).expectedEvidence = NoCol

\* the SET clause and its parameters
patch_sets(qc, risk, expected) ==
    [c \in {qc.risk, qc.risks, qc.expectedEvidence} \ {NoCol} |->
        CASE c = qc.risk  -> risk
          [] c = qc.risks -> json_dump_or_none(risk)
          [] c = qc.expectedEvidence -> expected]

\* detect_question_columns, load_process_map, the SET clause
P1Schema ==
    /\ script = "p1"
    /\ pc = "start"
    /\ IF p1_schema_rejected(schema) THEN Abort(Read(run, 1), autoinc)
       ELSE /\ pc' = "rows"
            /\ process_map' = patch_load_process_map(tx.processes)
            /\ run' = Read(run, 2)
            /\ UNCHANGED <<call, connect, sheet, ref, schema, db, tx, autoinc, script, dry_run,
                           idx, orders, cnt, prev, runs>>

\* one iteration of the loop over sheet.iterrows()
\* a lookup that yields a usable id for a name the cache does not hold
patch_process_id_defaulted(pmap, process_name) ==
    LET name == IF process_name = None THEN <<>> ELSE lower(strip(process_name))
    IN  IF Has(pmap, name) THEN pmap[name] ELSE 1

\* process_map.get(process_name.strip().lower()); 0 stands for the None that
\* `if not pid` treats as a missing process
patch_process_id(pmap, process_name) ==
    LET name == IF process_name = None THEN <<>> ELSE lower(strip(process_name))
    IN  IF Has(pmap, name) THEN pmap[name] ELSE 0

P1Row ==
    /\ script = "p1"
    /\ pc = "rows"
    /\ idx <= Len(sheet)
    /\ LET row           == sheet[idx]
           qc            == p1_columns(schema.q)
           process_name  == str_or_none(row.proc)
           article       == Or(str_or_none(row.clause), NA)
           question_text == str_or_none(row.text)
           pid           == patch_process_id(process_map, process_name)
           question_key  == iso_question_key(ref, article, pid, question_text)
           sets          == patch_sets(qc, str_or_none(row.risk), str_or_none(row.evid))
           Match(q)      == q[qc.questionKey] = question_key /\ q[qc.referentialId] = ref
           Matched       == {i \in 1..Len(tx.questions) : Match(tx.questions[i])}
           kr            == Keyed(run, "iso", <<ref, article, pid, question_text>>, question_key)
           stay          == /\ idx' = idx + 1
                            /\ UNCHANGED <<call, connect, sheet, ref, schema, db, autoinc, script, dry_run,
                                           pc, process_map, orders, prev, runs>>
       IN  IF process_name = None \/ question_text = None
           THEN /\ cnt' = [cnt EXCEPT !.skipped = @ + 1]
                /\ run' = [run EXCEPT !.rows = @ + 1]
                /\ tx' = tx
                /\ stay
           ELSE IF pid = 0
           THEN /\ cnt' = [cnt EXCEPT !.missing_process = @ + 1]
                /\ run' = [run EXCEPT !.rows = @ + 1]
                /\ tx' = tx
                /\ stay
           ELSE IF dry_run
           THEN /\ cnt' = [cnt EXCEPT !.updated = @ + 1]
                /\ run' = [kr EXCEPT !.rows = @ + 1]
                /\ tx' = tx
                /\ stay
           ELSE \E ok \in BOOLEAN :
                  IF ok
                  THEN /\ tx' = [tx EXCEPT !.questions = UpdateWhere(@, Matched, sets)]
                       /\ cnt' = [cnt EXCEPT ![patch_outcome(Cardinality(
                                                    Changed(tx.questions, Matched, sets)))] = @ + 1]
                       /\ run' = [Wrote(kr, 1) EXCEPT !.rows = @ + 1]
                       /\ stay
                  ELSE Abort([FailedWrite(kr, 1) EXCEPT !.rows = @ + 1], autoinc)

\* conn.commit() unless dry-run, close
P1Finish ==
    /\ script = "p1"
    /\ pc = "rows"
    /\ idx > Len(sheet)
    /\ pc' = "done"
    /\ db' = IF dry_run THEN db ELSE tx
    /\ tx' = db'
    /\ run' = [run EXCEPT !.commits = IF dry_run THEN @ ELSE @ + 1]
    /\ UNCHANGED <<call, connect, sheet, ref, schema, autoinc, script, dry_run, idx, process_map,
                   orders, cnt, prev, runs>>

RSquo == "rsquo"
Backtick == "backtick"
Apos == "apos"

\* re.sub(r"\s+", " ", s)
RECURSIVE CollapseSpaces(_)
CollapseSpaces(s) ==
    IF s = <<>> THEN <<>>
    ELSE IF IsSpace(Head(s))
         THEN LET rest == CollapseSpaces(Tail(s))
              IN  IF Tail(s) # <<>> /\ IsSpace(Head(Tail(s))) THEN rest ELSE <<" ">> \o rest
         ELSE <<Head(s)>> \o CollapseSpaces(Tail(s))

\* patch_iso_risks_from_excel_v2.normalize_question_text
normalize_question_text(s) ==
    LET t == CollapseSpaces(strip(IF s = None THEN <<>> ELSE s))
    IN  [i \in 1..Len(t) |-> IF t[i] \in {RSquo, Backtick} THEN Apos ELSE t[i]]

\* detect_cols
p2_columns(cols) ==
    [referentialId    |-> first_existing(<<"referentialId", "referential_id">>, cols),
     code             |-> first_existing(<<"code">>, cols),
     processId        |-> first_existing(<<"processId", "process_id">>, cols),
     article          |-> first_existing(<<"article">>, cols),
     questionText     |-> first_existing(<<"questionText", "question_text">>, cols),
     risk             |-> first_existing(<<"risk">>, cols),
     risks            |-> first_existing(<<"risks">>, cols),
     expectedEvidence |-> first_existing(<<"expectedEvidence", "expected_evidence">>, cols)]

p2_schema_rejected(sc) ==
    \/ p2_columns(sc.q).referentialId = NoCol
    \/ /\ p2_columns(sc.q).risk = NoCol
       /\ p2_columns(sc.q).risks = NoCol
       /\ p2_columns(sc.q).expectedEvidence = NoCol
    \/ sc.p = {}

\* connect_with_retry (connected), detect_cols, load_process_map
\* a backoff that does not grow with the attempt
connect_wait_fixed(i) == 2

\* wait = 2 * i
connect_wait(i) == 2 * i

\* one iteration of `for i in range(1, retries + 1)`: connect and ping; on
\* success the connection is returned, on an exception the script sleeps
\* connect_wait(i) seconds and goes to the next iteration
P2Connect ==
    /\ script = "p2"
    /\ pc = "connect"
    /\ connect.i <= Retries
    /\ \E ok \in BOOLEAN :
         IF ok
         THEN /\ pc' = "start"
              /\ connect' = NoConnect
         ELSE /\ pc' = pc
              /\ connect' = [i     |-> connect.i + 1,
                             wait  |-> connect_wait(connect.i),
                             slept |-> connect.slept + connect_wait(connect.i)]
    /\ UNCHANGED <<call, sheet, ref, schema, db, tx, autoinc, script, dry_run, idx,
                   process_map, orders, cnt, run, prev, runs>>

\* the loop is exhausted: raise SystemExit("DB connection failed after ...")
P2ConnectFailed ==
    /\ script = "p2"
    /\ pc = "connect"
    /\ connect.i > Retries
    /\ Abort(run, autoinc)

P2Schema ==
    /\ script = "p2"
    /\ pc = "start"
    /\ IF p2_schema_rejected(schema) THEN Abort(Read(run, 1), autoinc)
       ELSE /\ pc' = "rows"
            /\ process_map' = patch_load_process_map(tx.processes)
            /\ run' = Read(run, 2)
            /\ UNCHANGED <<call, connect, sheet, ref, schema, db, tx, autoinc, script, dry_run,
                           idx, orders, cnt, prev, runs>>

\* one iteration of the loop over sheet.iterrows()
P2Row ==
    /\ script = "p2"
    /\ pc = "rows"
    /\ idx <= Len(sheet)
    /\ LET row           == sheet[idx]
           qc            == p2_columns(schema.q)
           process_name  == str_or_none(row.proc)
           article       == Or(str_or_none(row.clause), NA)
           question_text == str_or_none(row.text)
           code          == str_or_none(row.code)
           pid           == patch_process_id(process_map, process_name)
           sets          == patch_sets(qc, str_or_none(row.risk), str_or_none(row.evid))
           by_code       == qc.code # NoCol /\ code # None
           ByCode(q)     == q[qc.referentialId] = ref /\ q[qc.code] = code
           CodeRows      == {i \in 1..Len(tx.questions) : ByCode(tx.questions[i])}
           coded         == IF by_code THEN Changed(tx.questions, CodeRows, sets) ELSE {}
           after_code    == IF by_code THEN UpdateWhere(tx.questions, CodeRows, sets)
                            ELSE tx.questions
           fallback      == qc.processId # NoCol /\ qc.article # NoCol /\ qc.questionText # NoCol
           qt            == normalize_question_text(question_text)
           Fallback(q)   == /\ q[qc.referentialId] = ref
                            /\ q[qc.processId] = pid
                            /\ q[qc.article] = article
                            /\ q[qc.questionText] = qt
           found         == IF fallback
                            THEN {i \in 1..Len(after_code) : Fallback(after_code[i])}
                            ELSE {}
           tally(field)  == /\ cnt' = [cnt EXCEPT ![field] = @ + 1]
                            /\ run' = [run EXCEPT !.rows = @ + 1]
           stay          == /\ idx' = idx + 1
                            /\ UNCHANGED <<call, connect, sheet, ref, schema, db, autoinc, script, dry_run,
                                           pc, process_map, orders, prev, runs>>
       IN  IF process_name = None \/ question_text = None
           THEN tally("skipped") /\ tx' = tx /\ stay
           ELSE IF pid = 0
           THEN tally("missing_process") /\ tx' = tx /\ stay
           ELSE IF dry_run
           THEN tally("updated") /\ tx' = tx /\ stay
           ELSE IF coded # {}
           THEN \E ok \in BOOLEAN :
                  IF ok
                  THEN /\ tx' = [tx EXCEPT !.questions = after_code]
                       /\ cnt' = [cnt EXCEPT !.updated = @ + 1, !.updated_by_code = @ + 1]
                       /\ run' = [Wrote(run, 1) EXCEPT !.rows = @ + 1]
                       /\ stay
                  ELSE Abort([FailedWrite(run, 1) EXCEPT !.rows = @ + 1], autoinc)
           ELSE IF found = {}
           THEN \E ok \in BOOLEAN :
                  IF ok \/ ~by_code
                  THEN /\ tx' = [tx EXCEPT !.questions = after_code]
                       /\ cnt' = [cnt EXCEPT !.not_found = @ + 1]
                       /\ run' = [Read(Wrote(run, IF by_code THEN 1 ELSE 0),
                                       IF fallback THEN 1 ELSE 0) EXCEPT !.rows = @ + 1]
                       /\ stay
                  ELSE Abort([FailedWrite(run, 1) EXCEPT !.rows = @ + 1], autoinc)
           ELSE \E ok \in BOOLEAN :
                  LET i  == CHOOSE j \in found : \A k \in found : j <= k
                      nw == 1 + (IF by_code THEN 1 ELSE 0)
                      hit == SetCols(after_code[i], sets) # after_code[i]
                  IN  IF ok
                      THEN /\ tx' = [tx EXCEPT !.questions =
                                        [after_code EXCEPT ![i] = SetCols(@, sets)]]
                           /\ cnt' = IF hit
                                     THEN [cnt EXCEPT !.updated = @ + 1,
                                                      !.updated_by_fallback = @ + 1]
                                     ELSE [cnt EXCEPT !.not_found = @ + 1]
                           /\ run' = [Read(Wrote(run, nw), 1) EXCEPT !.rows = @ + 1]
                           /\ stay
                      ELSE Abort([FailedWrite(Read(run, 1), nw) EXCEPT !.rows = @ + 1], autoinc)

\* conn.commit(), close
P2Finish ==
    /\ script = "p2"
    /\ pc = "rows"
    /\ idx > Len(sheet)
    /\ pc' = "done"
    /\ db' = tx
    /\ tx' = db'
    /\ run' = [run EXCEPT !.commits = @ + 1]
    /\ UNCHANGED <<call, connect, sheet, ref, schema, autoinc, script, dry_run, idx, process_map,
                   orders, cnt, prev, runs>>

Next ==
    \/ \E s \in Scripts, d \in BOOLEAN : StartRun(s, d)
    \/ IsoEnsureReferential
    \/ IsoResolveSchema
    \/ IsoPurge
    \/ IsoRow
    \/ IsoFinish
    \/ MdrSchema
    \/ MdrPurge
    \/ MdrRow
    \/ MdrFinish
    \/ P1Schema
    \/ P1Row
    \/ P1Finish
    \/ P2Connect
    \/ P2ConnectFailed
    \/ P2Schema
    \/ P2Row
    \/ P2Finish

Spec == Init /\ [][Next]_vars

(***************************************************************************)
(* The helper functions called on their own: the arguments are drawn in    *)
(* the initial state, one action per function applies it.                  *)
(***************************************************************************)
Pipe == "|"

\* discriminants of the ISO key: referential id, article, process id, text
IsoKeyTuples ==
    {<<r, a, p, t>> : r \in {2, 3}, a \in {<<"4">>, <<"4", Pipe, "1">>}, p \in {1, 11},
                      t \in {<<"x">>, <<"1", Pipe, "x">>, <<"1", "x">>}}

\* arguments of gen_question_key: article, process name, question text
MdrKeyTuples ==
    {<<a, n, t>> : a \in {<<"4">>, <<"4", " ">>, <<"4", Pipe, "A">>}, n \in {<<"A">>, <<"a">>},
                   t \in {<<"x">>, <<"A", Pipe, "x">>}}

KeyCalls ==
    {[fn |-> "iso_question_key", args |-> <<d, e>>, out |-> <<>>, done |-> FALSE] :
        d \in IsoKeyTuples, e \in IsoKeyTuples}
    \cup
    {[fn |-> "gen_question_key", args |-> <<d, e>>, out |-> <<>>, done |-> FALSE] :
        d \in MdrKeyTuples, e \in MdrKeyTuples}

\* column names an alias list and a table may hold
AliasNames == {"questionKey", "question_key", "qkey"}

ResolveCalls ==
    {[fn |-> f, args |-> <<cands, cols>>, out |-> <<>>, done |-> FALSE] :
        f \in {"first_existing", "pick_col"},
        cands \in SeqsUpTo(AliasNames, MaxAliases), cols \in SUBSET AliasNames}

\* raw categorical values, declared domains and fallbacks
NormRaws == {None, <<ATilde, CopySign, "l", "e", "v">>,
             <<"C", "r", "i", "t", "i", "q", "u", "e">>, <<"H", "i", "g", "h", " ">>, <<"x", " ", "l", "o", "w">>, <<"x">>, <<"z">>, <<EAcute, "l", "e", "v", EAcute>>}

NormDomains == {<<>>, <<<<"l", "o", "w">>, <<"m", "e", "d", "i", "u", "m">>, <<"h", "i", "g", "h">>>>, <<<<"y">>, <<"x">>>>, <<<<"c", "r", "i", "t", "i", "c", "a", "l">>, <<"h", "i", "g", "h">>>>}

NormFallbacks == {None, <<"x">>, <<"m", "e", "d", "i", "u", "m">>}

NormCalls ==
    {[fn |-> "normalize_to_enum", args |-> <<raw, dom, fb>>, out |-> <<>>, done |-> FALSE] :
        raw \in NormRaws, dom \in NormDomains, fb \in NormFallbacks}

\* ensure_process_id(..., dry_run=True): the cached id, or the id derived from
\* the name, which is cached
ensure_process_id_dry(pmap, process_name) ==
    LET key == iso_process_key(process_name)
        deterministic == md5_int32(key)
    IN  IF Has(pmap, key) THEN [id |-> pmap[key], process_map |-> pmap]
        ELSE [id |-> deterministic, process_map |-> Put(pmap, key, deterministic)]

\* get_or_create_process_id under DRY_RUN: the cached id, or the largest
\* cached id plus one, which is cached
get_or_create_process_id_dry(pmap, process_name) ==
    LET key == lower(Or(norm_str(process_name), NonDefini))
        fake_id == MaxOf(Values(pmap)) + 1
    IN  IF Has(pmap, key) THEN [id |-> pmap[key], process_map |-> pmap]
        ELSE [id |-> fake_id, process_map |-> Put(pmap, key, fake_id)]

\* process names of source rows, the caches a run loads, and the caches a
\* dry run holds after it has resolved one name
ProcessNames == {Ajeh, <<"i", "m", "d", "y", " ">>, <<"B">>}
LoadedCaches == {EmptyMap, (<<"a">> :> 1), (<<"a">> :> 1) @@ (<<"b">> :> 2)}
IsoDryCaches == LoadedCaches \cup {ensure_process_id_dry(c, n).process_map : c \in LoadedCaches, n \in ProcessNames}
MdrDryCaches == LoadedCaches \cup {get_or_create_process_id_dry(c, n).process_map : c \in LoadedCaches, n \in ProcessNames}

DryIdCalls ==
    {[fn |-> "ensure_process_id", args |-> <<c, n>>, out |-> <<>>, done |-> FALSE] :
        c \in IsoDryCaches, n \in ProcessNames}
    \cup
    {[fn |-> "get_or_create_process_id", args |-> <<c, n>>, out |-> <<>>, done |-> FALSE] :
        c \in MdrDryCaches, n \in ProcessNames}

\* accented letters of source headers
EGrave == "e_grave"
ECirc == "e_circ"
AGrave == "a_grave"
UGrave == "u_grave"
ICirc == "i_circ"
IUml == "i_uml"
OCirc == "o_circ"

\* the chain of str.replace calls of normalize_header, for one character
replace_header_char(c) ==
    CASE c \in {RSquo, Backtick}        -> Apos
      [] c \in {EAcute, EGrave, ECirc}  -> "e"
      [] c = AGrave                     -> "a"
      [] c = UGrave                     -> "u"
      [] c \in {ICirc, IUml}            -> "i"
      [] OTHER                          -> c

\* normalize_header: strip and lower, the replacements, re.sub(r"\s+", " ")
normalize_header(value) ==
    LET v == lower(strip(IF value = None THEN <<>> ELSE value))
    IN  CollapseSpaces([i \in 1..Len(v) |-> replace_header_char(v[i])])

\* resolve_sheet_value / get_cell: normalized = {normalize_header(col): col},
\* where a later column replaces an earlier one with the same normalized
\* header; the value of the column of the first alias the dict holds; a row
\* is the sequence of its (header, value) cells
RECURSIVE get_cell(_, _)
get_cell(row, aliases) ==
    IF aliases = <<>> THEN None
    ELSE LET key  == normalize_header(Head(aliases))
             cols == {i \in 1..Len(row) : normalize_header(row[i].col) = key}
         IN  IF cols # {} THEN str_or_none(row[MaxOf(cols)].value)
             ELSE get_cell(row, Tail(aliases))

\* source headers, aliases and rows of one or two columns with distinct
\* headers
Headers == {<<" ", "C", "l", EAcute>>, <<"c", "l", "e">>, <<"c", OCirc, "t", "e">>,
            <<"l", RSquo, "a", " ", NBSP, "b">>}
HeaderAliases == {<<"c", "l", EAcute>>, <<"c", "o", "t", "e">>, <<"l", Apos, "a", " ", "b">>}
Cell(h, v) == [col |-> h, value |-> v]
HeaderRows ==
    {<<Cell(h, <<"v">>)>> : h \in Headers}
    \cup {r \in {<<Cell(h, <<"v">>), Cell(g, <<"w", " ">>)>> : h \in Headers, g \in Headers} :
             r[1].col # r[2].col}

GetCellCalls ==
    {[fn |-> "get_cell", args |-> <<row, aliases>>, out |-> <<>>, done |-> FALSE] :
        row \in HeaderRows, aliases \in SeqsUpTo(HeaderAliases, MaxAliases)}

Calls == KeyCalls \cup ResolveCalls \cup NormCalls \cup DryIdCalls \cup GetCellCalls

FnInit ==
    /\ idx = 1
    /\ sheet = <<>>
    /\ schema = [q |-> QCamel, p |-> {"id", "name", "slug"}, r |-> TRUE]
    /\ db = EmptyStore
    /\ ref = 2
    /\ tx = db
    /\ autoinc = NextIds(db)
    /\ script = "iso"
    /\ dry_run = FALSE
    /\ pc = "idle"
    /\ process_map = EmptyMap
    /\ orders = EmptyMap
    /\ cnt = ZeroCnt
    /\ run = NewRun(db)
    /\ prev = NoPrev
    /\ runs = 0
    /\ call \in Calls
    /\ connect = NoConnect

Return(out) ==
    /\ call' = [call EXCEPT !.out = out, !.done = TRUE]
    /\ UNCHANGED progvars

\* the key of two discriminant tuples, computed one after the other
CallIsoKey ==
    /\ call.fn = "iso_question_key" /\ ~call.done
    /\ LET d == call.args[1]
           e == call.args[2]
       IN  Return(<<iso_question_key(d[1], d[2], d[3], d[4]),
                    iso_question_key(e[1], e[2], e[3], e[4])>>)

CallGenKey ==
    /\ call.fn = "gen_question_key" /\ ~call.done
    /\ LET d == call.args[1]
           e == call.args[2]
       IN  Return(<<gen_question_key(d[1], d[2], d[3]), gen_question_key(e[1], e[2], e[3])>>)

CallFirstExisting ==
    /\ call.fn = "first_existing" /\ ~call.done
    /\ Return(first_existing(call.args[1], call.args[2]))

CallPickCol ==
    /\ call.fn = "pick_col" /\ ~call.done
    /\ Return(pick_col(call.args[2], call.args[1]))

CallNormalizeToEnum ==
    /\ call.fn = "normalize_to_enum" /\ ~call.done
    /\ Return(normalize_to_enum(call.args[1], call.args[2], call.args[3]))

CallEnsureProcessId ==
    /\ call.fn = "ensure_process_id" /\ ~call.done
    /\ Return(ensure_process_id_dry(call.args[1], call.args[2]))

CallGetOrCreateProcessId ==
    /\ call.fn = "get_or_create_process_id" /\ ~call.done
    /\ Return(get_or_create_process_id_dry(call.args[1], call.args[2]))

CallGetCell ==
    /\ call.fn = "get_cell" /\ ~call.done
    /\ Return(get_cell(call.args[1], call.args[2]))

FnNext ==
    \/ CallGetCell
    \/ CallEnsureProcessId
    \/ CallGetOrCreateProcessId
    \/ CallNormalizeToEnum
    \/ CallIsoKey
    \/ CallGenKey
    \/ CallFirstExisting
    \/ CallPickCol

FnSpec == FnInit /\ [][FnNext]_vars

(***************************************************************************)
(* Properties.                                                             *)
(***************************************************************************)
Importers == {"iso", "mdr"}
Patches == {"p1", "p2"}

\* the question rows and the process rows that the current run has inserted
RunQuestions(store) ==
    SelectSeq(store.questions, LAMBDA q : q["id"] >= NextIds(run.before).q)
RunProcesses(store) ==
    SelectSeq(store.processes, LAMBDA q : q["id"] >= NextIds(run.before).p)

\* a cell that is empty or whitespace-only
Blank(v) == v = None \/ strip(v) = <<>>

\* two live runs of the same importer in succession, both completed
SecondReplaceDone ==
    /\ pc = "done" /\ ~dry_run /\ script \in Importers
    /\ prev.outcome = "done" /\ ~prev.dry /\ prev.script = script

\* C1: after the second of two successive live replace-mode runs on the same
\* source and referential the partition holds as many rows and the same set
\* of questionKey values as after the first, and the second run has created
\* no lookup entity.
C1_IdempotentReplace ==
    SecondReplaceDone =>
        /\ count_questions(db, ref) = prev.count
        /\ PartitionKeys(db, ref) = prev.keys
        /\ run.created = 0

C1_Witness ==
    /\ SecondReplaceDone
    /\ prev.created > 0
    /\ prev.count > 1
    /\ cnt.inserted > 1

\* C2: a completed live replace-mode run stores no two rows with the same
\* identity key: a source row whose identity repeats an earlier row of the run
\* is not inserted a second time.
C2_DuplicateNotInserted ==
    (/\ pc = "done" /\ ~dry_run /\ script \in Importers
     /\ KeyCol(schema.q) # NoCol
     /\ script = "mdr" => "questionKey" \in schema.q)
    => \A i, j \in 1..Len(RunQuestions(db)) :
          i # j => RunQuestions(db)[i][KeyCol(schema.q)] # RunQuestions(db)[j][KeyCol(schema.q)]

\* the source row at idx passes validation and its process is in the cache
Resolved(row) ==
    /\ ~Blank(row.proc)
    /\ ~Blank(row.text)
    /\ Has(process_map, lower(strip(row.proc)))

\* some stored row matches the source row: by questionKey for p1; by code, or
\* by (referential, process, article, normalized text), for p2
StoredMatch(store, row) ==
    LET article == Or(str_or_none(row.clause), NA)
        pid     == process_map[lower(strip(row.proc))]
        text    == str_or_none(row.text)
        code    == str_or_none(row.code)
    IN  \E i \in 1..Len(store.questions) :
          LET q == store.questions[i]
          IN  /\ q[RefCol(schema.q)] = ref
              /\ IF script = "p1"
                 THEN q[KeyCol(schema.q)] = iso_question_key(ref, article, pid, text)
                 ELSE \/ /\ "code" \in schema.q
                         /\ code # None
                         /\ q["code"] = code
                      \/ /\ p2_columns(schema.q).processId # NoCol
                         /\ p2_columns(schema.q).questionText # NoCol
                         /\ "article" \in schema.q
                         /\ q[p2_columns(schema.q).processId] = pid
                         /\ q["article"] = article
                         /\ q[p2_columns(schema.q).questionText] = normalize_question_text(text)

\* C3: in a live patch run, a source row that reaches the matching step and
\* that no stored row matches increments the not-found counter and leaves
\* every stored question row (and the committed store) unchanged.
C3_NotFoundLeavesRows ==
    [][ (/\ script \in Patches /\ ~dry_run
         /\ pc = "rows" /\ idx <= Len(sheet) /\ pc' = "rows"
         /\ Resolved(sheet[idx])
         /\ ~StoredMatch(tx, sheet[idx]))
        => /\ cnt'.not_found = cnt.not_found + 1
           /\ cnt'.updated = cnt.updated
           /\ tx'.questions = tx.questions
           /\ db' = db ]_vars

C3_Witness ==
    /\ script \in Patches /\ ~dry_run /\ pc = "rows" /\ idx > 1
    /\ Resolved(sheet[idx - 1])
    /\ ~StoredMatch(tx, sheet[idx - 1])
    /\ tx.questions # <<>>
    /\ cnt.not_found > 0

\* the process rows created by the current run have pairwise different
\* normalized names
OneEntityPerName(store) ==
    \A i, j \in 1..Len(RunProcesses(store)) :
        i # j => lower(strip(RunProcesses(store)[i]["name"]))
                    # lower(strip(RunProcesses(store)[j]["name"]))

\* C4: within one run of an importer, live or dry-run, names that are equal
\* after trimming and case-folding create at most one lookup entity, the
\* cache keeps the id assigned at the first resolution, and a row whose
\* normalized name is already cached creates nothing.
C4_LookupDedup ==
    [][ (script \in Importers /\ pc = "rows" /\ pc' \in {"rows", "done"})
        => /\ OneEntityPerName(tx')
           /\ \A k \in DOMAIN process_map :
                 k \in DOMAIN process_map' /\ process_map'[k] = process_map[k]
           /\ (/\ idx <= Len(sheet)
               /\ ~Blank(sheet[idx].proc)
               /\ Has(process_map, lower(strip(sheet[idx].proc))))
              => /\ run'.created = run.created
                 /\ tx'.processes = tx.processes
                 /\ process_map' = process_map ]_vars

C4_Witness ==
    /\ script \in Importers /\ pc = "rows" /\ idx = 3
    /\ cnt.inserted = 2
    /\ sheet[1].proc # sheet[2].proc
    /\ lower(strip(sheet[1].proc)) = lower(strip(sheet[2].proc))
    /\ run.created = 1

\* C5: in every script and mode a source row whose question text is empty or
\* whitespace-only is skipped: skipped grows by one, every other counter and
\* the cache stay, and no statement (read or write) is executed.
C5_BlankTextSkipped ==
    [][ (pc = "rows" /\ idx <= Len(sheet) /\ Blank(sheet[idx].text))
        => /\ cnt' = [cnt EXCEPT !.skipped = @ + 1]
           /\ run'.reads = run.reads
           /\ run'.writes = run.writes
           /\ run'.created = run.created
           /\ process_map' = process_map
           /\ tx' = tx
           /\ db' = db
           /\ pc' = "rows" ]_vars

C5_Witness ==
    /\ pc = "rows" /\ idx > 1
    /\ sheet[idx - 1].text # None
    /\ Blank(sheet[idx - 1].text)
    /\ ~Blank(sheet[idx - 1].proc)
    /\ cnt.skipped > 0
    /\ ~dry_run
    /\ script = "iso"

\* C6: a dry-run run of any script never changes the store: at every point
\* of the run and after it the questions, process and referentials tables
\* (committed, and as seen by the session) equal their state before the run.
C6_DryRunWritesNothing ==
    (dry_run /\ pc # "idle") => (db = run.before /\ tx = run.before /\ run.writes = 0)

C6_Witness ==
    /\ dry_run /\ pc = "done" /\ script = "iso"
    /\ cnt.inserted > 0
    /\ run.before.questions # <<>>
    /\ ref \notin db.referentials
    /\ \E k \in DOMAIN process_map : process_map[k] >= NextIds(db).p

\* C7: the outcome counters of a dry-run run equal those of a live run of the
\* same script on the same source from the same store (the live run follows
\* the dry run, which left the store as it was).
C7_DryRunPreviewsLive ==
    (/\ pc = "done" /\ ~dry_run
     /\ prev.outcome = "done" /\ prev.dry /\ prev.script = script)
    => /\ cnt.inserted = prev.cnt.inserted
       /\ cnt.updated = prev.cnt.updated
       /\ cnt.skipped = prev.cnt.skipped
       /\ cnt.missing_process = prev.cnt.missing_process
       /\ cnt.not_found = prev.cnt.not_found

\* a live replace-mode run that ended on a failed write
FailedReplace ==
    pc = "failed" /\ run.failed_write /\ script \in Importers /\ ~dry_run

\* C8 as stated: after a live replace-mode run in which a write failed the
\* store equals the store before the run.
C8_FailureRestoresStore == FailedReplace => db = run.before

\* C8 amended: the store equals the store before the run unless the run had
\* committed a batch; only mdr commits batches, one after every CommitEvery
\* inserts, and a failure after such a commit leaves the purge and exactly the
\* committed batches in place.
C8_FailureRestoresLastCommit ==
    FailedReplace =>
        /\ tx = db
        /\ run.commits = 0 => db = run.before
        /\ script = "mdr" => run.commits = cnt.inserted \div CommitEvery
        /\ script = "iso" => db = run.before
        /\ (script = "mdr" /\ run.commits > 0 /\ "id" \in schema.q)
              => Len(RunQuestions(db)) = run.commits * CommitEvery

C8_Witness ==
    /\ FailedReplace
    /\ run.writes > 2
    /\ run.created > 0
    /\ cnt.inserted > 0
    /\ run.before.questions # <<>>
    /\ db = run.before

\* C9: when the questions table is not found or a required column resolves
\* to no physical column, iso aborts before any write statement and before
\* any source row.
C9_SchemaCheckedBeforeWrites ==
    (/\ script = "iso" /\ pc = "failed" /\ ~run.failed_write
     /\ schema.r /\ schema.p # {}
     /\ (schema.q = {} \/ iso_missing(schema.q) # {}))
    => run.writes = 0 /\ run.rows = 0

HasChar(s, c) == \E i \in 1..Len(s) : s[i] = c

\* C11 (as stated): any two discriminant tuples that differ in at least one
\* field yield different keys.
C11_KeyInjective ==
    (call.done /\ call.fn \in {"iso_question_key", "gen_question_key"})
        => (call.args[1] # call.args[2] => call.out[1] # call.out[2])

\* C11 (amended): two ISO tuples that differ yield different keys when
\* neither article contains the delimiter '|'; two argument tuples of
\* gen_question_key yield different keys when they differ after norm_str and
\* neither normalized article nor normalized process name contains '|'.
C11_KeyInjectiveWithoutDelimiter ==
    LET d == call.args[1]
        e == call.args[2]
        n(t) == <<norm_str(t[1]), norm_str(t[2]), norm_str(t[3])>>
    IN  /\ (call.done /\ call.fn = "iso_question_key")
            => ((d # e /\ ~HasChar(d[2], Pipe) /\ ~HasChar(e[2], Pipe))
                    => call.out[1] # call.out[2])
        /\ (call.done /\ call.fn = "gen_question_key")
            => ((n(d) # n(e) /\ \A i \in {1, 2} : ~HasChar(d[i], Pipe) /\ ~HasChar(e[i], Pipe))
                    => call.out[1] # call.out[2])

\* two ISO tuples that differ only in the process id (1, 11) have been keyed
C11_Witness ==
    /\ call.done /\ call.fn = "iso_question_key"
    /\ call.args[1] = <<2, <<"4">>, 1, <<"x">>>>
    /\ call.args[2] = <<2, <<"4">>, 11, <<"x">>>>
    /\ call.out[1] # call.out[2]

\* C12: column resolution returns the first alias of the candidate list
\* that is a column of the table (the earlier of two aliases that both
\* exist), and no column only when no alias is a column.
C12_FirstAliasWins ==
    (call.done /\ call.fn \in {"first_existing", "pick_col"}) =>
        LET cands   == call.args[1]
            present == {i \in 1..Len(cands) : cands[i] \in call.args[2]}
        IN  IF present = {} THEN call.out = NoCol
            ELSE call.out = cands[CHOOSE i \in present : \A j \in present : i <= j]

\* both aliases are columns and the resolution has returned
C12_Witness ==
    /\ call.done /\ call.fn = "first_existing"
    /\ call.args = <<(<<"questionKey", "question_key">>), {"questionKey", "question_key", "qkey"}>>
    /\ call.out = "questionKey"

NormCall == call.done /\ call.fn = "normalize_to_enum"

\* the normalized raw value is no domain entry, case apart
NoExactMatch == ~InSeq(LowerAll(call.args[2]), lower(norm_str(call.args[1])))

\* some keyword occurs in the text, case apart
AnyInFolded(keywords, text) == \E i \in 1..Len(keywords) : IsSubstr(lower(keywords[i]), lower(text))

\* C13: with domain [low, medium, high] the raw value 'Critique' normalizes
\* to 'high'; a raw value that is no exact case-insensitive domain match and
\* contains a high-severity keyword normalizes to the high-severity value of
\* the domain (the first of critical, high, majeur, major the domain has).
C13_HighKeywordGivesHigh ==
    LET raw == call.args[1]
        dom == call.args[2]
    IN  /\ (NormCall /\ raw = <<"C", "r", "i", "t", "i", "q", "u", "e">> /\ dom = <<<<"l", "o", "w">>, <<"m", "e", "d", "i", "u", "m">>, <<"h", "i", "g", "h">>>>) => call.out = <<"h", "i", "g", "h">>
        /\ (/\ NormCall /\ dom # <<>> /\ NoExactMatch
            /\ AnyInFolded(HighKeywords, norm_str(raw))
            /\ \E i \in 1..Len(HighTargets) : InSeq(LowerAll(dom), HighTargets[i]))
           => LET t == CHOOSE i \in 1..Len(HighTargets) :
                           /\ InSeq(LowerAll(dom), HighTargets[i])
                           /\ \A j \in 1..(i - 1) : ~InSeq(LowerAll(dom), HighTargets[j])
              IN  lower(call.out) = HighTargets[t]

\* the domain value keyword-family matching produces for v, None if it
\* produces none (no family keyword in v, or no target of the family in the domain)
FamilyValue(v, allowed) ==
    IF AnyIn(HighKeywords, v) THEN pick(HighTargets, allowed)
    ELSE IF AnyIn(MediumKeywords, v) THEN pick(MediumTargets, allowed)
    ELSE IF AnyIn(LowKeywords, v) THEN pick(LowTargets, allowed)
    ELSE None

\* C14: the chain is exact match, keyword family, substring containment,
\* fallback, first domain entry: when there is no exact match and keyword
\* matching produces no domain value, the first domain entry contained in the
\* raw value is returned if there is one, and the fallback or the first
\* domain entry only if there is none.
C14_ChainOrder ==
    LET v   == lower(norm_str(call.args[1]))
        dom == call.args[2]
        fb  == call.args[3]
        al  == LowerAll(dom)
        contained == {i \in 1..Len(al) : al[i] # <<>> /\ IsSubstr(al[i], v)}
    IN  (NormCall /\ dom # <<>> /\ NoExactMatch /\ FamilyValue(v, dom) = None)
        => IF contained # {}
           THEN call.out = dom[CHOOSE i \in contained : \A j \in contained : i <= j]
           ELSE \/ call.out = dom[1]
                \/ fb # None /\ lower(call.out) = lower(fb)

\* the columns a patch may write
Mutable == {"risk", "risks", "expectedEvidence", "expected_evidence"}

\* store holds the question rows of before, changed at most in the mutable
\* columns of rows of referential r
PatchFrame(before, store, r) ==
    /\ Len(store.questions) = Len(before.questions)
    /\ store.processes = before.processes
    /\ store.referentials = before.referentials
    /\ \A i \in 1..Len(before.questions) :
          LET old == before.questions[i]
              new == store.questions[i]
          IN  /\ DOMAIN new = DOMAIN old
              /\ \A c \in DOMAIN old \ Mutable : new[c] = old[c]
              /\ (RefCol(DOMAIN old) = NoCol \/ old[RefCol(DOMAIN old)] # r) => new = old

\* C15: a live patch run inserts and deletes no question row and changes no
\* column other than risk, risks and expectedEvidence; the key, process id,
\* article and text of every row, and every row of another referential, are
\* as before the run.
C15_PatchFrame ==
    (script \in Patches /\ ~dry_run /\ pc # "idle")
        => PatchFrame(run.before, tx, ref) /\ PatchFrame(run.before, db, ref)

\* a live patch has committed a change while a row of another referential is stored
C15_Witness ==
    /\ script \in Patches /\ ~dry_run /\ pc = "done"
    /\ db # run.before
    /\ \E i \in 1..Len(db.questions) :
          RefCol(schema.q) # NoCol /\ db.questions[i][RefCol(schema.q)] # ref

\* C16: when a run completes without error every source row has been counted
\* in exactly one outcome counter: inserted + skipped is the number of rows in
\* both importers, updated + skipped + missing process + not found in both
\* patch scripts, live and dry-run.
C16_CountersSumToRows ==
    pc = "done" =>
        /\ script \in Importers => cnt.inserted + cnt.skipped = Len(sheet)
        /\ script \in Patches =>
              cnt.updated + cnt.skipped + cnt.missing_process + cnt.not_found = Len(sheet)

\* a live patch of two rows has completed with one row skipped and one not found
C16_Witness ==
    /\ pc = "done" /\ script = "p1" /\ ~dry_run
    /\ Len(sheet) = 2 /\ cnt.skipped = 1 /\ cnt.not_found = 1

\* the SET values patch v2 builds for the source row
P2Sets(row) == patch_sets(p2_columns(schema.q), str_or_none(row.risk), str_or_none(row.evid))

\* patch v2 attempts the update by code for the source row and that update
\* changes a stored row
CodeUpdateChanges(row) ==
    /\ "code" \in schema.q
    /\ str_or_none(row.code) # None
    /\ \E i \in 1..Len(tx.questions) :
          LET q == tx.questions[i]
          IN  /\ q[RefCol(schema.q)] = ref
              /\ q["code"] = str_or_none(row.code)
              /\ SetCols(q, P2Sets(row)) # q

\* C17: in a live patch v2 run each source row that passes validation and
\* lookup resolution ends in exactly one of updated-by-code,
\* updated-by-fallback, not-found; the fallback lookup is executed only when
\* the update by code was not attempted or changed no row, so a row updated
\* by code is never also updated by fallback.
C17_P2FirstMatchWins ==
    [][ (/\ script = "p2" /\ ~dry_run
         /\ pc = "rows" /\ idx <= Len(sheet) /\ pc' = "rows"
         /\ Resolved(sheet[idx]))
        => LET dc == cnt'.updated_by_code - cnt.updated_by_code
               df == cnt'.updated_by_fallback - cnt.updated_by_fallback
               dn == cnt'.not_found - cnt.not_found
           IN  /\ {dc, df, dn} \subseteq {0, 1}
               /\ dc + df + dn = 1
               /\ cnt'.updated = cnt.updated + dc + df
               /\ cnt'.skipped = cnt.skipped
               /\ cnt'.missing_process = cnt.missing_process
               /\ CodeUpdateChanges(sheet[idx]) <=> dc = 1
               /\ dc = 1 => run'.reads = run.reads
               /\ df = 1 => run'.reads = run.reads + 1 ]_vars

\* a live patch v2 run has updated one row by code and another by fallback
C17_Witness ==
    /\ script = "p2" /\ ~dry_run /\ pc = "done"
    /\ cnt.updated_by_code = 1 /\ cnt.updated_by_fallback = 1

\* the stored rows the fallback lookup of patch v2 matches for the source row:
\* same referential, process id, article and normalized question text
FallbackMatches(row) ==
    LET qc == p2_columns(schema.q)
    IN  IF qc.processId = NoCol \/ qc.article = NoCol \/ qc.questionText = NoCol THEN {}
        ELSE {i \in 1..Len(tx.questions) :
                LET q == tx.questions[i]
                IN  /\ q[qc.referentialId] = ref
                    /\ q[qc.processId] = process_map[lower(strip(row.proc))]
                    /\ q[qc.article] = Or(str_or_none(row.clause), NA)
                    /\ q[qc.questionText] = normalize_question_text(str_or_none(row.text))}

\* C18: in patch v2 the fallback update is performed only when exactly one
\* stored row matches (referential id, process id, article, normalized
\* question text); when two or more match, no row is updated by fallback.
C18_FallbackNeedsUniqueMatch ==
    [][ (/\ script = "p2" /\ ~dry_run
         /\ pc = "rows" /\ idx <= Len(sheet) /\ pc' = "rows"
         /\ Resolved(sheet[idx])
         /\ Cardinality(FallbackMatches(sheet[idx])) >= 2)
        => /\ cnt'.updated_by_fallback = cnt.updated_by_fallback
           /\ tx'.questions = tx.questions ]_vars

\* C19: the identity key is a function of (referential id, article, resolved
\* lookup id, question text) only: in every importer two source rows that
\* agree on these four values get the same key, whatever their position,
\* their display order and the spelling of the process name.
C19_KeyFunctionOfDiscriminants ==
    LET qc == iso_columns(schema.q)
        qs == tx.questions
    IN  (/\ script \in Importers /\ ~dry_run /\ pc \in {"rows", "done"}
         /\ NoCol \notin {qc.referential, qc.process, qc.article, qc.question_text,
                           qc.question_key})
        => \A i, j \in 1..Len(qs) :
              (/\ qs[i][qc.referential] = qs[j][qc.referential]
               /\ qs[i][qc.process] = qs[j][qc.process]
               /\ qs[i][qc.article] = qs[j][qc.article]
               /\ qs[i][qc.question_text] = qs[j][qc.question_text])
              => qs[i][qc.question_key] = qs[j][qc.question_key]

\* C20: in every run of the ISO importer, within each (process id, article)
\* group the n-th non-skipped source row gets display order n, counted from 1
\* in every run whatever was stored before: the k-th row the run has stored
\* carries 1 + the number of rows of its group the run stored before it.
C20_DisplayOrderPerGroup ==
    LET qc == iso_columns(schema.q)
        qs == Partition(tx, ref)
        SameGroup(a, b) == a[qc.process] = b[qc.process] /\ a[qc.article] = b[qc.article]
    IN  (/\ script = "iso" /\ ~dry_run /\ pc \in {"rows", "done"}
         /\ NoCol \notin {qc.process, qc.article, qc.display_order})
        => /\ Len(qs) = cnt.inserted
           /\ \A k \in 1..Len(qs) :
                 qs[k][qc.display_order]
                    = 1 + Cardinality({i \in 1..(k - 1) : SameGroup(qs[i], qs[k])})

\* a live ISO run over a partition that already held rows has stored two rows
\* with display orders 1 and 2
C20_Witness ==
    LET qc == iso_columns(schema.q)
        qs == Partition(tx, ref)
    IN  /\ script = "iso" /\ ~dry_run /\ pc = "done"
        /\ NoCol \notin {qc.process, qc.article, qc.display_order}
        /\ Len(Partition(run.before, ref)) > 0
        /\ Len(qs) = 2
        /\ qs[1][qc.display_order] = 1 /\ qs[2][qc.display_order] = 2

\* the question rows of store that belong to another referential than r
OtherPartitions(store, r) ==
    SelectSeq(store.questions, LAMBDA q : q[RefCol(schema.q)] # r)

\* C21: a live replace-mode run for referential R purges only the question
\* rows whose referential id is R: every question row of another referential
\* is the same after the run as before it.
C21_PurgeOnlyOwnPartition ==
    (/\ script \in Importers /\ ~dry_run /\ pc \in {"rows", "done"}
     /\ RefCol(schema.q) # NoCol)
    => /\ OtherPartitions(tx, ref) = OtherPartitions(run.before, ref)
       /\ pc = "done" => OtherPartitions(db, ref) = OtherPartitions(run.before, ref)

\* C22: a source row whose process name is empty or whitespace-only is
\* skipped in every importer and patch script: the skip counter is
\* incremented, no question row is written for it and no lookup entity is
\* created or resolved for it.
C22_BlankProcessSkipped ==
    [][ (/\ pc = "rows" /\ idx <= Len(sheet) /\ pc' = "rows"
         /\ Blank(sheet[idx].proc))
        => /\ cnt' = [cnt EXCEPT !.skipped = @ + 1]
           /\ tx' = tx
           /\ db' = db
           /\ process_map' = process_map
           /\ run'.writes = run.writes
           /\ run'.created = run.created ]_vars

\* C23: in a patch run, a row with a process name and a question text whose
\* process name is not in the lookup cache is counted as a missing process,
\* writes nothing to the store, creates no lookup entity, and the run goes on
\* with the next row.
C23_MissingProcessCounted ==
    [][ (/\ script \in Patches /\ pc = "rows" /\ idx <= Len(sheet)
         /\ ~Blank(sheet[idx].proc) /\ ~Blank(sheet[idx].text)
         /\ ~Has(process_map, lower(strip(sheet[idx].proc))))
        => /\ cnt' = [cnt EXCEPT !.missing_process = @ + 1]
           /\ tx' = tx
           /\ db' = db
           /\ autoinc' = autoinc
           /\ process_map' = process_map
           /\ run'.writes = run.writes
           /\ pc' = "rows"
           /\ idx' = idx + 1 ]_vars

\* a patch run that counted a missing process and stands before its next row
C23_Witness ==
    /\ script \in Patches
    /\ pc = "rows"
    /\ cnt.missing_process >= 1
    /\ idx <= Len(sheet)
    /\ tx = run.before

\* C24: the connection step with retry makes at most `retries` (6) attempts,
\* returns on the first successful attempt without a further attempt, sleeps
\* 2*i seconds after the i-th failed attempt (strictly more than after the
\* one before), and ends the script with a fatal error after the last failed
\* attempt; the connection step is entered only when a run starts, and no
\* statement of a source row is executed again: a row step goes on to the
\* next row or fails the run, with at most one SELECT and two UPDATEs.
C24_ConnectRetry ==
    [][ /\ pc = "connect"
           => /\ connect.i \in 1..(Retries + 1)
              /\ \/ /\ pc' = "start"
                    /\ connect.i <= Retries
                    /\ connect' = NoConnect
                 \/ /\ pc' = "connect"
                    /\ connect.i <= Retries
                    /\ connect'.i = connect.i + 1
                    /\ connect'.wait = 2 * connect.i
                    /\ connect'.wait > connect.wait
                    /\ connect'.slept = connect.slept + 2 * connect.i
                 \/ /\ pc' = "failed"
                    /\ connect.i = Retries + 1
                    /\ connect.wait = 2 * Retries
                    /\ connect' = connect
        /\ (pc # "connect" /\ pc' = "connect")
           => runs' = runs + 1 /\ connect'.i = 1
        /\ (pc # "connect" /\ pc' # "connect")
           => connect' = connect
        /\ (script = "p2" /\ pc = "rows" /\ idx <= Len(sheet))
           => /\ (pc' = "rows" /\ idx' = idx + 1) \/ pc' = "failed"
              /\ run'.writes - run.writes <= 2
              /\ run'.reads - run.reads <= 1
              /\ run'.failed_write => pc' = "failed" ]_vars

\* every attempt to connect has failed and the script has ended
C24_Witness ==
    /\ script = "p2"
    /\ pc = "failed"
    /\ connect.i = Retries + 1
    /\ connect.wait = 2 * Retries
    /\ connect.slept = 2 + 4 + 6 + 8 + 10 + 12

\* C25: in a live importer run, at every point after the lookup cache is
\* loaded, every cache entry (normalized name -> id) corresponds to a lookup
\* row visible to the run with that id and with a name that, trimmed and
\* case-folded, is that cache key.
C25_CacheShadowsStore ==
    (script \in Importers /\ ~dry_run /\ pc \in {"purge", "rows"})
    => \A key \in DOMAIN process_map :
         \E i \in 1..Len(tx.processes) :
            /\ tx.processes[i]["id"] = process_map[key]
            /\ tx.processes[i]["name"] # None
            /\ lower(strip(tx.processes[i]["name"])) = key

\* a live importer run whose cache holds a loaded entity and a created one
C25_Witness ==
    /\ script \in Importers /\ ~dry_run /\ pc = "rows"
    /\ run.created >= 1
    /\ Cardinality(DOMAIN process_map) >= 2
    /\ Len(run.before.processes) >= 1

PatchedAfterImport(p) ==
    /\ script = p /\ ~dry_run /\ pc = "done"
    /\ prev.script = "iso" /\ ~prev.dry /\ prev.outcome = "done"

\* C27: after a committed live run of the ISO importer on source S and
\* referential R, a live run of patch v1 on the same S and R recomputes for
\* every non-skipped row the questionKey the importer stored: it reports
\* not found = 0 and missing process = 0, and its updated counter equals the
\* inserted counter of the importer.
C27_PatchV1FindsImportedRows ==
    PatchedAfterImport("p1")
    => /\ cnt.not_found = 0
       /\ cnt.missing_process = 0
       /\ cnt.updated = prev.cnt.inserted

\* C28: after a committed live run of the ISO importer on source S and
\* referential R, a live run of patch v2 on the same S and R against a
\* questions table without a code column matches every row the importer
\* inserted through the fallback lookup: not found = 0 and updated-by-fallback
\* equals the inserted counter of the importer.
C28_PatchV2FallbackFindsImportedRows ==
    (PatchedAfterImport("p2") /\ p2_columns(schema.q).code = NoCol)
    => /\ cnt.not_found = 0
       /\ cnt.updated_by_fallback = prev.cnt.inserted

\* C29: in dry-run mode the id synthesized for a lookup name that is not in
\* the cache differs from the id cached for every other name (and is a
\* function of the cache and the name), so that two distinct lookup entities
\* never share an id within a run.
C29_DryIdDistinct ==
    (/\ call.done /\ call.fn \in {"ensure_process_id", "get_or_create_process_id"}
     /\ DOMAIN call.out.process_map # DOMAIN call.args[1])
    => \A key \in DOMAIN call.args[1] : call.args[1][key] # call.out.id

\* the base letter of an accented letter
BaseLetter(c) ==
    CASE c \in {EAcute, EGrave, ECirc} -> "e"
      [] c = AGrave                    -> "a"
      [] c = UGrave                    -> "u"
      [] c \in {ICirc, IUml}           -> "i"
      [] c = OCirc                     -> "o"
      [] OTHER                         -> c

\* a header with surrounding whitespace, letter case, accents, runs of
\* internal whitespace and the apostrophe variant taken away
Folded(h) ==
    LET v == lower(strip(h))
    IN  CollapseSpaces([i \in 1..Len(v) |->
                           IF v[i] \in {RSquo, Backtick} THEN Apos ELSE BaseLetter(v[i])])

\* the columns of row whose header differs from alias in nothing but that
SameHeader(row, alias) == {i \in 1..Len(row) : Folded(row[i].col) = Folded(alias)}

\* C30: a source header and an alias that differ only in surrounding
\* whitespace, letter case, accents on letters, runs of internal whitespace or
\* curly versus straight apostrophes resolve to the same column, and the value
\* returned is that of a column matched by the earliest such alias (none if
\* no alias matches a header).
C30_HeaderMatchingNormalized ==
    (call.done /\ call.fn = "get_cell")
    => LET row     == call.args[1]
           aliases == call.args[2]
           hits    == {j \in 1..Len(aliases) : SameHeader(row, aliases[j]) # {}}
       IN  IF hits = {} THEN call.out = None
           ELSE LET first == CHOOSE j \in hits : \A k \in hits : j <= k
                IN  \E i \in SameHeader(row, aliases[first]) :
                       call.out = str_or_none(row[i].value)

TypeOK == pc \in {"idle", "connect", "start", "schema", "purge", "rows", "done", "failed"}

====
